---- MODULE Spec2Model ----
(***************************************************************************)
(* Model of frj_bot.py: the daily run (main) that fetches the Statcast     *)
(* batted-ball frame, fetches each game's play-by-play, joins the two on   *)
(* the composite key, and classifies rows into Action Items and Front Row  *)
(* Joes.                                                                   *)
(*                                                                         *)
(* A DataFrame is a record [columns, rows]: the set of column names and    *)
(* the sequence of rows.  A missing numeric value (NaN) is the empty       *)
(* sequence NA and a present one is <<x>>; a missing string is a marker    *)
(* string.  An exception that nothing catches ends the run in pc =         *)
(* "crashed" with its type in exc.                                         *)
(*                                                                         *)
(* main calls get_statcast, get_action_items, get_frjs, create_daily_report*)
(* and send_email_with_pdf.  get_yesterday_data, get_player_names and      *)
(* scrape_woba_weights have no caller, so no action of the run stands for  *)
(* them.                                                                   *)
(***************************************************************************)
EXTENDS Integers, Sequences, FiniteSets, TLC

VARIABLES
    pc,            \* position of main
    sc,            \* get_statcast: the frame statcast() returned
    games,         \* get_statcast: sc['game_pk'].unique()
    gi,            \* process_games: index of the next game of the loop
    all_play_ids,  \* process_games: the keys extracted so far
    fetched,       \* the game ids get_play_by_play was called with, in order
    enriched,      \* main: the frame get_statcast returned (main's sc)
    action_items,  \* main: get_action_items(sc)
    frjs,          \* main: get_frjs(sc)
    pdf,           \* create_daily_report wrote the PDF
    emailed,       \* send_email_with_pdf handed the message to SMTP
    lookups,       \* number of calls of get_player_names (the name lookup)
    log,           \* logger / print lines, in order
    exc            \* the exception that escaped main, "none" if none

vars == <<pc, sc, games, gi, all_play_ids, fetched, enriched, action_items,
          frjs, pdf, emailed, lookups, log, exc>>

----------------------------------------------------------------------------
(* Bounds of the model *)

MaxRows == 2
MaxPlays == 1
MaxEvents == 2

----------------------------------------------------------------------------
(* Values *)

NA == <<>>
Some(x) == <<x>>
IsNA(v) == v = NA

NoEvent == "<NA>"
NoClip == "NaN"
Absent == "<absent>"
NoName == "<NA>"
NoFrame == [bound |-> FALSE, columns |-> {}, rows |-> <<>>]
NoTable == [bound |-> FALSE, columns |-> <<>>, rows |-> <<>>]
Frame(cols, rows) == [bound |-> TRUE, columns |-> cols, rows |-> rows]

LABELED_PLAYERS ==
    {607054, 621439, 596142, 669261, 571745, 543877, 456781, 593871, 596115,
     664034, 680777, 621043, 664056}

COLUMNS ==
    <<"batter_name", "playId", "batter", "launch_speed", "launch_angle", "events">>

KEY_COLUMNS ==
    {"game_pk", "inning", "inning_topbot", "pitch_number", "at_bat_number",
     "batter", "pitcher"}

API_COLUMNS == KEY_COLUMNS \cup {"playId"}

STATCAST_COLUMNS ==
    KEY_COLUMNS \cup
    {"game_date", "events", "description", "hit_location", "hit_distance_sc",
     "home_team", "away_team", "launch_speed", "launch_angle"}

CLUB == "SD"
FRJ_EVENTS == {"home_run"}
ACTION_EVENTS ==
    {"single", "double", "triple", "field_out", "sacrifice_fly",
     "sac_fly_double_play", "field_error"}
LEFT == 7
CENTER == 8
RIGHT == 9
FRJ_SIDE_MAX == 350
FRJ_CENTER_MAX == 380
ACTION_SIDE_MIN == 365
ACTION_CENTER_MIN == 380

Range(s) == {s[i] : i \in DOMAIN s}
SeqsUpTo(S, n) == UNION {[1..k -> S] : k \in 0..n}

----------------------------------------------------------------------------
(* process_games and extract_play_ids *)

\* sc['game_pk'].unique(): the distinct game ids in order of first appearance
RECURSIVE Unique(_)
Unique(s) ==
    IF s = <<>> THEN <<>>
    ELSE LET init == Unique(SubSeq(s, 1, Len(s) - 1))
             x == s[Len(s)]
         IN  IF x \in Range(init) THEN init ELSE Append(init, x)

GamePks(frame) == Unique([i \in DOMAIN frame.rows |-> frame.rows[i].game_pk])

\* event.get('isPitch') and 'playId' in event
Qualifies(event) == event.isPitch /\ event.playId # Absent

\* the dict appended for one qualifying event of a play
PlayIdEntry(play, event, game) ==
    [playId        |-> event.playId,
     pitch_number  |-> event.pitchNumber,
     game_pk       |-> game,
     batter        |-> play.matchup.batter,
     pitcher       |-> play.matchup.pitcher,
     inning        |-> play.about.inning,
     inning_topbot |-> play.about.halfInning,
     at_bat_number |-> play.about.atBatIndex + 1]

\* the inner loop of extract_play_ids over one play's playEvents
ExtractPlay(play, game) ==
    LET q == SelectSeq(play.playEvents, Qualifies)
    IN  [i \in 1..Len(q) |-> PlayIdEntry(play, q[i], game)]

RECURSIVE ExtractPlays(_, _)
ExtractPlays(plays, game) ==
    IF plays = <<>> THEN <<>>
    ELSE ExtractPlay(Head(plays), game) \o ExtractPlays(Tail(plays), game)

extract_play_ids(play_by_play, game) == ExtractPlays(play_by_play.allPlays, game)

\* pd.DataFrame(all_play_ids): a list of no dicts gives a frame with no columns
ApiFrame(entries) ==
    Frame(IF entries = <<>> THEN {} ELSE API_COLUMNS, entries)

----------------------------------------------------------------------------
(* get_statcast: normalisation, merge, drop_duplicates *)

\* .replace({'top': 'Top', 'bottom': 'Bot'})
ReplaceTopBot(v) ==
    CASE v = "top" -> "Top"
      [] v = "bottom" -> "Bot"
      [] OTHER -> v

NormalizeApi(api) ==
    [i \in DOMAIN api |-> [api[i] EXCEPT !.inning_topbot = ReplaceTopBot(@)]]

\* equality on the seven columns of on=[...]
KeyMatch(row, entry) ==
    /\ row.game_pk = entry.game_pk
    /\ row.inning = entry.inning
    /\ row.inning_topbot = entry.inning_topbot
    /\ row.pitch_number = entry.pitch_number
    /\ row.at_bat_number = entry.at_bat_number
    /\ row.batter = entry.batter
    /\ row.pitcher = entry.pitcher

WithPlayId(row, v) == row @@ ("playId" :> v)

\* the rows a left merge produces for one left row
MergeRow(row, api) ==
    LET m == SelectSeq(api, LAMBDA e : KeyMatch(row, e))
    IN  IF m = <<>> THEN <<WithPlayId(row, NoClip)>>
        ELSE [i \in 1..Len(m) |-> WithPlayId(row, m[i].playId)]

RECURSIVE MergeRows(_, _)
MergeRows(left, api) ==
    IF left = <<>> THEN <<>>
    ELSE MergeRow(Head(left), api) \o MergeRows(Tail(left), api)

\* pd.merge(sc, api, how='left', on=[...]): the result has a fresh RangeIndex
Merge(left, api) ==
    LET m == MergeRows(left, api)
    IN  [i \in 1..Len(m) |-> m[i] @@ ("index" :> (i - 1))]

SameValues(a, b) == [a EXCEPT !.index = 0] = [b EXCEPT !.index = 0]

\* DataFrame.drop_duplicates(): the first of each run of rows equal in all columns
DropDuplicates(rows) ==
    LET keep == {i \in DOMAIN rows : \A j \in 1..(i - 1) : ~SameValues(rows[j], rows[i])}
        F[i \in 0..Len(rows)] ==
            IF i = 0 THEN <<>>
            ELSE IF i \in keep THEN Append(F[i - 1], rows[i]) ELSE F[i - 1]
    IN  F[Len(rows)]

----------------------------------------------------------------------------
(* get_frjs and get_action_items *)

Le(v, k) == ~IsNA(v) /\ v[1] <= k
Ge(v, k) == ~IsNA(v) /\ v[1] >= k
Lt(v, k) == ~IsNA(v) /\ v[1] < k
Gt(v, k) == ~IsNA(v) /\ v[1] > k
Eq(v, k) == ~IsNA(v) /\ v[1] = k

\* the mask of lines 200-202 (negated in lines 214-216)
Owned(r) ==
    \/ r.batter \in LABELED_PLAYERS
    \/ (r.inning_topbot = "Top" /\ r.away_team = CLUB)
    \/ (r.inning_topbot = "Bot" /\ r.home_team = CLUB)

\* get_frjs with < in place of <= at line 196
FrjRowsStrict(rows) ==
    LET df == SelectSeq(rows, LAMBDA r : r.events \in FRJ_EVENTS)
        lr0 == SelectSeq(df, LAMBDA r : Eq(r.hit_location, LEFT) \/ Eq(r.hit_location, RIGHT))
        left_or_right == SelectSeq(lr0, LAMBDA r : Lt(r.hit_distance_sc, FRJ_SIDE_MAX))
        c0 == SelectSeq(df, LAMBDA r : Eq(r.hit_location, CENTER))
        center == SelectSeq(c0, LAMBDA r : Le(r.hit_distance_sc, FRJ_CENTER_MAX))
    IN  SelectSeq(left_or_right \o center, Owned)

\* get_frjs up to the projection: the rows of result
FrjRows(rows) ==
    LET df == SelectSeq(rows, LAMBDA r : r.events \in FRJ_EVENTS)
        lr0 == SelectSeq(df, LAMBDA r : Eq(r.hit_location, LEFT) \/ Eq(r.hit_location, RIGHT))
        left_or_right == SelectSeq(lr0, LAMBDA r : Le(r.hit_distance_sc, FRJ_SIDE_MAX))
        c0 == SelectSeq(df, LAMBDA r : Eq(r.hit_location, CENTER))
        center == SelectSeq(c0, LAMBDA r : Le(r.hit_distance_sc, FRJ_CENTER_MAX))
    IN  SelectSeq(left_or_right \o center, Owned)

\* get_action_items with > in place of >= at line 210
ActionRowsStrict(rows) ==
    LET df == SelectSeq(rows, LAMBDA r : r.events \in ACTION_EVENTS)
        lr0 == SelectSeq(df, LAMBDA r : Eq(r.hit_location, LEFT) \/ Eq(r.hit_location, RIGHT))
        left_or_right == SelectSeq(lr0, LAMBDA r : Gt(r.hit_distance_sc, ACTION_SIDE_MIN))
        c0 == SelectSeq(df, LAMBDA r : Eq(r.hit_location, CENTER))
        center == SelectSeq(c0, LAMBDA r : Ge(r.hit_distance_sc, ACTION_CENTER_MIN))
    IN  SelectSeq(left_or_right \o center, LAMBDA r : ~Owned(r))

\* get_action_items written as a copy of get_frjs with only the thresholds changed
ActionRowsCopied(rows) ==
    LET df == SelectSeq(rows, LAMBDA r : r.events \in FRJ_EVENTS)
        lr0 == SelectSeq(df, LAMBDA r : Eq(r.hit_location, LEFT) \/ Eq(r.hit_location, RIGHT))
        left_or_right == SelectSeq(lr0, LAMBDA r : Ge(r.hit_distance_sc, ACTION_SIDE_MIN))
        c0 == SelectSeq(df, LAMBDA r : Eq(r.hit_location, CENTER))
        center == SelectSeq(c0, LAMBDA r : Ge(r.hit_distance_sc, ACTION_CENTER_MIN))
    IN  SelectSeq(left_or_right \o center, Owned)

\* get_action_items up to the projection: the rows of result
ActionRows(rows) ==
    LET df == SelectSeq(rows, LAMBDA r : r.events \in ACTION_EVENTS)
        lr0 == SelectSeq(df, LAMBDA r : Eq(r.hit_location, LEFT) \/ Eq(r.hit_location, RIGHT))
        left_or_right == SelectSeq(lr0, LAMBDA r : Ge(r.hit_distance_sc, ACTION_SIDE_MIN))
        c0 == SelectSeq(df, LAMBDA r : Eq(r.hit_location, CENTER))
        center == SelectSeq(c0, LAMBDA r : Ge(r.hit_distance_sc, ACTION_CENTER_MIN))
    IN  SelectSeq(left_or_right \o center, LAMBDA r : ~Owned(r))

\* result[COLUMNS] raises KeyError when a listed column is not in the frame
ProjectionRaises(frame) == ~(Range(COLUMNS) \subseteq frame.columns)

\* result[COLUMNS]: the six columns, each row keeping its index label
Project(rows) ==
    [i \in DOMAIN rows |->
        [index        |-> rows[i].index,
         batter_name  |-> rows[i].batter_name,
         playId       |-> rows[i].playId,
         batter       |-> rows[i].batter,
         launch_speed |-> rows[i].launch_speed,
         launch_angle |-> rows[i].launch_angle,
         events       |-> rows[i].events]]

get_frjs(frame) == [bound |-> TRUE, columns |-> COLUMNS, rows |-> Project(FrjRows(frame.rows))]

get_action_items(frame) ==
    [bound |-> TRUE, columns |-> COLUMNS, rows |-> Project(ActionRows(frame.rows))]

----------------------------------------------------------------------------
(* The inputs: what statcast() and the play-by-play endpoint may return *)

GameIds == {746001, 746002}
ClientBatter == 607054
OtherBatter == 660271
Pitcher == 543037
Descriptions == {"hit_into_play", "foul"}
Teams == {<<"SD", "LAD">>, <<"LAD", "SD">>, <<"LAD", "NYM">>}
Distances == {NA, Some(340), Some(350), Some(360), Some(365), Some(380), Some(385)}
Locations == {NA, Some(3), Some(LEFT), Some(CENTER), Some(RIGHT)}
Events == FRJ_EVENTS \cup ACTION_EVENTS \cup {"strikeout", NoEvent}

StatcastRow(game, topbot, batter, ev, desc, loc, dist, teams, name) ==
    [game_pk         |-> game,
     inning          |-> 1,
     inning_topbot   |-> topbot,
     at_bat_number   |-> 1,
     pitch_number    |-> 1,
     batter          |-> batter,
     pitcher         |-> Pitcher,
     events          |-> ev,
     description     |-> desc,
     hit_location    |-> loc,
     hit_distance_sc |-> dist,
     home_team       |-> teams[1],
     away_team       |-> teams[2],
     launch_speed    |-> Some(98),
     launch_angle    |-> Some(31),
     batter_name     |-> name]

\* Whether the frame of statcast() carries a batter_name column is the feed's
\* choice: main adds none.  A column the frame does not have reads as NoName
\* in its rows.
FeedName(hasName) == IF hasName THEN "feed name" ELSE NoName
FeedColumns(hasName) ==
    STATCAST_COLUMNS \cup (IF hasName THEN {"batter_name"} ELSE {})

\* rows of the frames statcast() returns: a short home run by a client batter,
\* or a fly out, with either description, in either game
StreamRows(hasName) ==
    {StatcastRow(g, "Top", ClientBatter, ev, d, Some(LEFT), Some(340),
                 <<"LAD", "SD">>, FeedName(hasName)) :
        g \in GameIds, ev \in {"home_run", "field_out"}, d \in Descriptions}

StreamFrames ==
    UNION {{Frame(FeedColumns(h), rows) : rows \in SeqsUpTo(StreamRows(h), MaxRows)} :
           h \in BOOLEAN}

PlayEvents ==
    {[isPitch |-> TRUE, playId |-> "clip-a", pitchNumber |-> 1],
     [isPitch |-> TRUE, playId |-> "clip-b", pitchNumber |-> 1],
     [isPitch |-> TRUE, playId |-> Absent, pitchNumber |-> 1],
     [isPitch |-> FALSE, playId |-> "clip-a", pitchNumber |-> 1]}

Plays ==
    {[about |-> [inning |-> 1, halfInning |-> h, atBatIndex |-> 0],
      matchup |-> [batter |-> [id |-> ClientBatter].id, pitcher |-> Pitcher],
      playEvents |-> evs] :
        h \in {"top", "bottom"}, evs \in SeqsUpTo(PlayEvents, MaxEvents)}

Payloads == {[allPlays |-> ps] : ps \in SeqsUpTo(Plays, MaxPlays)}

\* further rows of a frame handed to the classifier, from the other game: one
\* that the Front Row Joe rule takes through its center branch, one that the
\* Action Item rule takes through its left-or-right branch
ExtraRows(hasName) ==
    {StatcastRow(746002, "Top", ClientBatter, "home_run", "hit_into_play",
                 Some(CENTER), Some(380), <<"LAD", "NYM">>, FeedName(hasName)),
     StatcastRow(746002, "Top", OtherBatter, "single", "hit_into_play",
                 Some(LEFT), Some(365), <<"LAD", "NYM">>, FeedName(hasName))}

NoRepeat(s) == \A i, j \in DOMAIN s : i # j => s[i] # s[j]

\* a frame as get_statcast returns it: the rows with a playId column and
\* RangeIndex labels
EnrichedFrame(hasName, rows, clip) ==
    Frame(FeedColumns(hasName) \cup {"playId"},
          [i \in DOMAIN rows |-> WithPlayId(rows[i], clip) @@ ("index" :> (i - 1))])

\* the frame statcast() returned, given what get_statcast made of it
Primary(frame) ==
    Frame(frame.columns \ {"playId"},
          [i \in DOMAIN frame.rows |->
              [f \in DOMAIN frame.rows[i] \ {"playId", "index"} |-> frame.rows[i][f]]])

----------------------------------------------------------------------------
(* The run *)

Init ==
    /\ pc = "start"
    /\ sc = NoFrame
    /\ games = <<>>
    /\ gi = 1
    /\ all_play_ids = <<>>
    /\ fetched = <<>>
    /\ enriched = NoFrame
    /\ action_items = NoTable
    /\ frjs = NoTable
    /\ pdf = FALSE
    /\ emailed = FALSE
    /\ lookups = 0
    /\ log = <<>>
    /\ exc = "none"

\* get_statcast lines 149-152 once an exception reached the except clause:
\* the error is logged, then the return statement reads sc_w_playid, which
\* was never assigned, and the UnboundLocalError escapes get_statcast and main
Abort ==
    /\ log' = Append(log, "ERROR Error fetching or processing new data")
    /\ exc' = "UnboundLocalError"
    /\ pc' = "crashed"

\* statcast() raises
StatcastRaises ==
    /\ pc = "start"
    /\ Abort
    /\ UNCHANGED <<sc, games, gi, all_play_ids, fetched, enriched, action_items,
                   frjs, pdf, emailed, lookups>>

\* statcast() returns a frame; lines 139-141 up to the loop of process_games
StatcastReturns ==
    /\ pc = "start"
    /\ \E f \in StreamFrames :
          /\ sc' = f
          /\ games' = GamePks(f)
    /\ gi' = 1
    /\ all_play_ids' = <<>>
    /\ pc' = "process_games"
    /\ UNCHANGED <<fetched, enriched, action_items, frjs, pdf, emailed, lookups,
                   log, exc>>

\* one iteration of the loop of process_games: status 200 and a payload
FetchGameOk ==
    /\ pc = "process_games"
    /\ gi <= Len(games)
    /\ \E p \in Payloads :
          LET ids == extract_play_ids(p, games[gi])
          IN  /\ all_play_ids' = all_play_ids \o ids
              /\ fetched' = Append(fetched, [game |-> games[gi], outcome |-> "ok",
                                             keys |-> Len(ids)])
    /\ gi' = gi + 1
    /\ UNCHANGED <<pc, sc, games, enriched, action_items, frjs, pdf, emailed,
                   lookups, log, exc>>

\* one iteration of the loop of process_games: a status other than 200
FetchGameNon200 ==
    /\ pc = "process_games"
    /\ gi <= Len(games)
    /\ fetched' = Append(fetched, [game |-> games[gi], outcome |-> "non200", keys |-> 0])
    /\ log' = Append(log, "Failed to fetch data for game")
    /\ gi' = gi + 1
    /\ UNCHANGED <<pc, sc, games, all_play_ids, enriched, action_items, frjs, pdf,
                   emailed, lookups, exc>>

\* one iteration of the loop of process_games: requests.get raises; nothing
\* catches it before the except clause of get_statcast
FetchGameTransportError ==
    /\ pc = "process_games"
    /\ gi <= Len(games)
    /\ fetched' = Append(fetched, [game |-> games[gi], outcome |-> "error", keys |-> 0])
    /\ Abort
    /\ UNCHANGED <<sc, games, gi, all_play_ids, enriched, action_items, frjs, pdf,
                   emailed, lookups>>

\* process_games line 118 and get_statcast lines 142-152
Join ==
    /\ pc = "process_games"
    /\ gi > Len(games)
    /\ LET api == ApiFrame(all_play_ids)
       IN  IF "inning_topbot" \notin api.columns
           THEN \* api['inning_topbot'] raises KeyError, caught at line 149
                /\ Abort
                /\ UNCHANGED <<enriched>>
           ELSE /\ enriched' = Frame(sc.columns \cup {"playId"},
                                     DropDuplicates(Merge(sc.rows, NormalizeApi(api.rows))))
                /\ log' = Append(log, "INFO Statcast data updated successfully.")
                /\ pc' = "main"
                /\ UNCHANGED <<exc>>
    /\ UNCHANGED <<sc, games, gi, all_play_ids, fetched, action_items, frjs, pdf,
                   emailed, lookups>>

\* main lines 369-371
CheckEmpty ==
    /\ pc = "main"
    /\ IF enriched.rows = <<>>
       THEN /\ log' = Append(log, "ERROR No data available. Exiting.")
            /\ pc' = "done"
       ELSE /\ pc' = "get_action_items"
            /\ UNCHANGED <<log>>
    /\ UNCHANGED <<sc, games, gi, all_play_ids, fetched, enriched, action_items,
                   frjs, pdf, emailed, lookups, exc>>

\* main line 374
GetActionItems ==
    /\ pc = "get_action_items"
    /\ IF ProjectionRaises(enriched)
       THEN /\ exc' = "KeyError"
            /\ pc' = "crashed"
            /\ UNCHANGED <<action_items>>
       ELSE /\ action_items' = get_action_items(enriched)
            /\ pc' = "get_frjs"
            /\ UNCHANGED <<exc>>
    /\ UNCHANGED <<sc, games, gi, all_play_ids, fetched, enriched, frjs, pdf,
                   emailed, lookups, log>>

\* main line 375
GetFrjs ==
    /\ pc = "get_frjs"
    /\ IF ProjectionRaises(enriched)
       THEN /\ exc' = "KeyError"
            /\ pc' = "crashed"
            /\ UNCHANGED <<frjs>>
       ELSE /\ frjs' = get_frjs(enriched)
            /\ pc' = "report"
            /\ UNCHANGED <<exc>>
    /\ UNCHANGED <<sc, games, gi, all_play_ids, fetched, enriched, action_items,
                   pdf, emailed, lookups, log>>

\* main lines 378-383
CreateReport ==
    /\ pc = "report"
    /\ pdf' = TRUE
    /\ log' = Append(log, "INFO PDF created successfully")
    /\ pc' = "email"
    /\ UNCHANGED <<sc, games, gi, all_play_ids, fetched, enriched, action_items,
                   frjs, emailed, lookups, exc>>

\* main lines 386-389 with send_email_with_pdf
SendEmail ==
    /\ pc = "email"
    /\ \E send \in BOOLEAN, password \in BOOLEAN, smtp_ok \in BOOLEAN :
          IF ~send
          THEN /\ log' = Append(log, "INFO Email sending skipped")
               /\ UNCHANGED emailed
          ELSE IF ~password
          THEN /\ log' = Append(log, "ERROR SENDER_PASSWORD environment variable not set")
               /\ UNCHANGED emailed
          ELSE IF smtp_ok
          THEN /\ log' = Append(log, "INFO Email sent successfully")
               /\ emailed' = TRUE
          ELSE /\ log' = Append(log, "ERROR Failed to send email")
               /\ UNCHANGED emailed
    /\ pc' = "done"
    /\ UNCHANGED <<sc, games, gi, all_play_ids, fetched, enriched, action_items,
                   frjs, pdf, lookups, exc>>

Next ==
    \/ StatcastRaises
    \/ StatcastReturns
    \/ FetchGameOk
    \/ FetchGameNon200
    \/ FetchGameTransportError
    \/ Join
    \/ CheckEmpty
    \/ GetActionItems
    \/ GetFrjs
    \/ CreateReport
    \/ SendEmail

Spec == Init /\ [][Next]_vars

----------------------------------------------------------------------------
(* The classifier on its own: main from line 374, for every frame of        *)
(* ClassFrames that get_statcast can have returned                          *)

\* the first row takes every combination of the columns get_frjs and
\* get_action_items read; no two rows of a frame are equal
InitClassifier ==
    /\ pc = "get_action_items"
    /\ \E h \in BOOLEAN, tb \in {"Top", "Bot"}, b \in {ClientBatter, OtherBatter},
          ev \in Events, loc \in Locations, dist \in Distances, t \in Teams,
          c \in {NoClip, "clip-a"} :
          \E more \in SeqsUpTo(ExtraRows(h), MaxRows - 1) :
          /\ NoRepeat(more)
          /\ enriched =
                EnrichedFrame(h, <<StatcastRow(746001, tb, b, ev, "hit_into_play", loc,
                                               dist, t, FeedName(h))>> \o more, c)
    /\ sc = Primary(enriched)
    /\ games = GamePks(sc)
    /\ gi = Len(games) + 1
    /\ all_play_ids = <<>>
    /\ fetched = [i \in DOMAIN games |-> [game |-> games[i], outcome |-> "ok", keys |-> 1]]
    /\ action_items = NoTable
    /\ frjs = NoTable
    /\ pdf = FALSE
    /\ emailed = FALSE
    /\ lookups = 0
    /\ log = <<"INFO Statcast data updated successfully.">>
    /\ exc = "none"

NextClassifier ==
    \/ GetActionItems
    \/ GetFrjs

SpecClassifier == InitClassifier /\ [][NextClassifier]_vars

----------------------------------------------------------------------------
(* Properties *)

InTable(table, r) == \E i \in DOMAIN table.rows : table.rows[i].index = r.index
EnrichedRows == Range(enriched.rows)

\* get_statcast has returned or raised
JoinEnded == pc \notin {"start", "process_games"}
RunEnded == pc \in {"done", "crashed"}

Copies(row) == {j \in DOMAIN enriched.rows : KeyMatch(row, enriched.rows[j])}
Calls(g) == {i \in DOMAIN fetched : fetched[i].game = g}
FailedGames == {fetched[i].game : i \in {k \in DOMAIN fetched : fetched[k].outcome # "ok"}}
EmptyGames ==
    {fetched[i].game :
        i \in {k \in DOMAIN fetched : fetched[k].outcome = "ok" /\ fetched[k].keys = 0}}

\* the zone of the glossary: left, center, right, or unset
Zone(r) ==
    CASE r.hit_location = <<7>> -> "left"
      [] r.hit_location = <<8>> -> "center"
      [] r.hit_location = <<9>> -> "right"
      [] OTHER -> "unset"

Within(r, side, center, below) ==
    /\ r.hit_distance_sc # NA
    /\ LET d == r.hit_distance_sc[1]
           limit == IF Zone(r) = "center" THEN center ELSE side
       IN  /\ Zone(r) \in {"left", "center", "right"}
           /\ IF below THEN d <= limit ELSE d >= limit

RosterSet ==
    {607054, 621439, 596142, 669261, 571745, 543877, 456781, 593871, 596115,
     664034, 680777, 621043, 664056}

Ownership(r) ==
    \/ r.batter \in RosterSet
    \/ (r.inning_topbot = "Top" /\ r.away_team = "SD")
    \/ (r.inning_topbot = "Bot" /\ r.home_team = "SD")

FrontRowJoe(r) ==
    /\ r.events = "home_run"
    /\ Within(r, 350, 380, TRUE)
    /\ Ownership(r)

ActionItem(r) ==
    /\ r.events \in {"single", "double", "triple", "field_out", "sacrifice_fly",
                     "sac_fly_double_play", "field_error"}
    /\ Within(r, 365, 380, FALSE)
    /\ ~Ownership(r)

\* C1: every result get_statcast returns holds exactly one row for each
\* primary record's composite key, and that row carries a clip id when an
\* extracted key matches it.
C1_OneRowPerPrimaryKey ==
    enriched.bound =>
        \A i \in DOMAIN sc.rows :
            /\ Cardinality(Copies(sc.rows[i])) = 1
            /\ (\E e \in Range(NormalizeApi(all_play_ids)) : KeyMatch(sc.rows[i], e)) =>
                  \A j \in Copies(sc.rows[i]) : enriched.rows[j].playId # NoClip

\* C2: no record is in both the Action Items table and the Front Row Joes
\* table.
C2_TablesDisjoint ==
    (action_items.bound /\ frjs.bound) =>
        \A r \in EnrichedRows : ~(InTable(action_items, r) /\ InTable(frjs, r))

\* a frame with a record in each table
C2_Witness ==
    /\ action_items.bound
    /\ frjs.bound
    /\ \E r \in EnrichedRows : InTable(action_items, r)
    /\ \E r \in EnrichedRows : InTable(frjs, r)

\* C3: when some play-by-play fetches fail (a status other than 200, or a
\* transport error), get_statcast still returns: every game was fetched and
\* every primary record of a failing game is in the result without a clip id.
C3_FailedFetchIsSkipped ==
    (JoinEnded /\ FailedGames # {}) =>
        /\ enriched.bound
        /\ \A g \in Range(games) : Calls(g) # {}
        /\ \A i \in DOMAIN sc.rows :
              sc.rows[i].game_pk \in FailedGames =>
                 \E j \in Copies(sc.rows[i]) : enriched.rows[j].playId = NoClip

\* C4: when statcast() raises or returns no rows, get_statcast returns an
\* empty frame, and main logs the error and ends without classifying, writing
\* the PDF or sending the email.
C4_PrimaryFailureEndsRunCleanly ==
    (RunEnded /\ (~sc.bound \/ sc.rows = <<>>)) =>
        /\ enriched.bound
        /\ enriched.rows = <<>>
        /\ pc = "done"
        /\ "ERROR No data available. Exiting." \in Range(log)
        /\ ~action_items.bound
        /\ ~frjs.bound
        /\ ~pdf
        /\ ~emailed

C6_ActionItemRule ==
    action_items.bound =>
        \A r \in EnrichedRows : InTable(action_items, r) <=> ActionItem(r)

\* a single to center at 385 ft by a batter off the roster whose club is not
\* the designated one is in the table
C6_Witness ==
    /\ action_items.bound
    /\ \E r \in EnrichedRows :
          /\ r.events = "single"
          /\ r.hit_location = <<8>>
          /\ r.hit_distance_sc = <<385>>
          /\ r.batter \notin RosterSet
          /\ r.inning_topbot = "Top"
          /\ r.away_team # "SD"
          /\ InTable(action_items, r)

\* C7: in a run of main, every row of either table has the description
\* hit_into_play.
C7_OnlyBallsInPlay ==
    \A r \in EnrichedRows :
        (InTable(action_items, r) \/ InTable(frjs, r)) => r.description = "hit_into_play"

\* C8: once get_statcast has returned rows, the run classifies them: both
\* tables exist with the six columns, the batter names resolved by the name
\* lookup.
C8_TablesProduced ==
    (RunEnded /\ enriched.bound /\ enriched.rows # <<>>) =>
        /\ action_items.bound
        /\ frjs.bound
        /\ action_items.columns = COLUMNS
        /\ frjs.columns = COLUMNS
        /\ lookups > 0

\* C9: by the end of get_statcast the play-by-play of each distinct game id
\* of the primary stream was fetched exactly once, and of no other game.
C9_EachGameFetchedOnce ==
    (JoinEnded /\ sc.bound) =>
        /\ \A i \in DOMAIN sc.rows : Cardinality(Calls(sc.rows[i].game_pk)) = 1
        /\ \A i \in DOMAIN fetched :
              \E j \in DOMAIN sc.rows : sc.rows[j].game_pk = fetched[i].game

\* C10: when every fetch answered with status 200 and some payloads held no
\* qualifying event, get_statcast still returns, and every primary record of
\* such a game is in the result without a clip id.
C10_EmptyPayloadIsNoError ==
    (JoinEnded /\ FailedGames = {} /\ EmptyGames # {}) =>
        /\ enriched.bound
        /\ \A i \in DOMAIN sc.rows :
              sc.rows[i].game_pk \in EmptyGames =>
                 \E j \in Copies(sc.rows[i]) : enriched.rows[j].playId = NoClip

====
